---------------------------- MODULE Spec2Model ----------------------------
(***************************************************************************)
(* Model of the conversational slot-filling backend (backend/main.py and   *)
(* backend/config/intent_manager.py).                                      *)
(*                                                                         *)
(* State: the in-memory session store `sessions`, the wall clock `now`     *)
(* (in hours), the supply of uuid4 identifiers `nextId`, `config`, the     *)
(* configuration held by the IntentConfigManager, `module_globals`, the    *)
(* module-level copies main.py keeps of it, and `last`, the request of the *)
(* most recent operation together with the response it produced, and       *)
(* `tasks`, the requests the server has accepted and not yet answered.     *)
(* Every HTTP handler is one action: the handlers are                      *)
(* `async def` bodies without any await, so each runs to completion on the *)
(* event loop before another one starts.                                   *)
(*                                                                         *)
(* External collaborators are nondeterministic inputs of the chat action:  *)
(* the NLU reply (unreachable / unparseable, or a JSON object with any     *)
(* intent value and any entity map) and the search reply (failure, no      *)
(* hits, hits).                                                            *)
(***************************************************************************)
EXTENDS Integers, Sequences, FiniteSets, TLC

VARIABLES sessions, now, nextId, last, config, module_globals, tasks

vars == <<sessions, now, nextId, last, config, module_globals, tasks>>

----------------------------------------------------------------------------
(* Bounds of the model *)

\* number of uuid4 identifiers that can be generated
MaxSessions == 2
\* last hour the clock reaches
MaxTime == 2
\* longest conversation history a turn may start from
MaxHist == 3
\* the same, in the specification of the reloads
ReloadHist == 2
\* the same, in the specification of the event loop
LoopHist == 2
\* most requests that are accepted and not yet answered
MaxTasks == 2
\* the same, in the specification of the session store
StoreHist == 1
\* most entities in one NLU reply
MaxEntities == 1
\* most entities in a list of an intent of the configuration file
MaxSlots == 2

----------------------------------------------------------------------------
(* Values *)

\* Python's None (also the JSON null of an NLU reply)
None == "None"

\* the empty dict {}
EmptyMap == [k \in {} |-> ""]

\* session_id of a request that carries none (None or "": both falsy)
NoId == 0

\* an id the server never issued (e.g. one from before a restart)
ForeignId == -1

\* SESSION_TIMEOUT = timedelta(hours=1); the clock counts hours
SESSION_TIMEOUT == 1

\* a key that a JSON object does not have
Absent == "Absent"

\* dict restricted to the keys in S
Restrict(m, S) == [k \in (DOMAIN m) \cap S |-> m[k]]

\* d[k] = v on a dict
Put(m, k, v) == [x \in (DOMAIN m) \cup {k} |-> IF x = k THEN v ELSE m[x]]

\* the elements of a list
Range(s) == {s[i] : i \in 1..Len(s)}

\* Python truthiness of a str-or-None value
Truthy(v) == v # None /\ v # ""

----------------------------------------------------------------------------
(* Configuration: config/intent_config.json as loaded by IntentConfigManager *)
(* into `config`.  A configuration is a record: intents, the "intents"      *)
(* object; entities, the keys of the "entities" object; entities_is_object, *)
(* false when the "entities" value of the file is no JSON object.           *)

\* the "intents" object of the configuration file: General collects county
\* then age (entity_order), FAQ and News are keyed by a topic
config_intents ==
    [General |-> [required_entities |-> <<"age", "county">>,
                  entity_order      |-> <<"county", "age">>,
                  optional_entities |-> <<"topic">>],
     FAQ     |-> [required_entities |-> <<"topic">>,
                  optional_entities |-> <<"county">>],
     News    |-> [required_entities |-> <<"topic">>,
                  optional_entities |-> <<>>]]

\* the keys of the "entities" object of the configuration file
config_entities == {"county", "age", "topic"}

\* the configuration file as shipped
shipped_config ==
    [intents |-> config_intents, entities |-> config_entities,
     entities_is_object |-> TRUE]

\* the "intents" object of the file after an edit: General asks for the
\* county only and News is gone
edited_intents ==
    [General |-> [required_entities |-> <<"county">>,
                  optional_entities |-> <<>>],
     FAQ     |-> [required_entities |-> <<"topic">>,
                  optional_entities |-> <<>>]]

\* the states config/intent_config.json can be in when it is read
ConfigFileNames ==
    {"shipped", "edited", "absent", "invalid_json", "no_definitions",
     "entities_list"}

\* what open() and json.load() make of the file: kind "absent" is no file,
\* "invalid" is text that is no JSON, "json" is a JSON object.
\* "no_definitions" is the object {} and "entities_list" an object whose
\* "entities" value is a list.
config_file(name) ==
    CASE name = "shipped" ->
            [kind |-> "json", content |-> shipped_config]
      [] name = "edited" ->
            [kind |-> "json",
             content |-> [intents |-> edited_intents,
                          entities |-> {"county", "topic"},
                          entities_is_object |-> TRUE]]
      [] name = "no_definitions" ->
            [kind |-> "json",
             content |-> [intents |-> [i \in {} |-> <<>>],
                          entities |-> {},
                          entities_is_object |-> TRUE]]
      [] name = "entities_list" ->
            [kind |-> "json",
             content |-> [intents |-> edited_intents,
                          entities |-> {},
                          entities_is_object |-> FALSE]]
      [] name = "absent" ->
            [kind |-> "absent", content |-> shipped_config]
      [] OTHER ->
            [kind |-> "invalid", content |-> shipped_config]

\* IntentConfigManager._load_config: the dict json.load returns, or
\* FileNotFoundError / ValueError
_load_config(name) ==
    [raised |-> config_file(name).kind # "json",
     config |-> config_file(name).content]

get_valid_intents == DOMAIN config.intents

\* list(self.config.get("entities", {}).keys()); raises when the value is no
\* object, see get_entity_config_raises
get_valid_entities == config.entities

\* self.config.get("entities", {}).get(entity) raises AttributeError when
\* the "entities" value is a list
get_entity_config_raises == ~config.entities_is_object

get_intent_config(intent) ==
    IF intent \in DOMAIN config.intents THEN config.intents[intent] ELSE None

get_required_entities(intent) ==
    IF intent \notin DOMAIN config.intents
    THEN <<>>
    ELSE LET c == config.intents[intent]
         IN IF "entity_order" \in DOMAIN c THEN c.entity_order
            ELSE IF "required_entities" \in DOMAIN c THEN c.required_entities
            ELSE <<>>

get_optional_entities(intent) ==
    IF intent \notin DOMAIN config.intents
    THEN <<>>
    ELSE LET c == config.intents[intent]
         IN IF "optional_entities" \in DOMAIN c THEN c.optional_entities ELSE <<>>

get_all_required_entities_by_intent ==
    [i \in get_valid_intents |-> get_required_entities(i)]

\* the module-level names of main.py that copy the configuration
VALID_INTENTS == module_globals.VALID_INTENTS

VALID_ENTITIES == module_globals.VALID_ENTITIES

REQUIRED_ENTITIES_BY_INTENT == module_globals.REQUIRED_ENTITIES_BY_INTENT

\* REQUIRED_ENTITIES_BY_INTENT.get(intent, [])
RequiredGet(intent) ==
    IF intent \in DOMAIN REQUIRED_ENTITIES_BY_INTENT
    THEN REQUIRED_ENTITIES_BY_INTENT[intent]
    ELSE <<>>


----------------------------------------------------------------------------
(* Questions of the IntentConfigManager.  The "entities" object of the     *)
(* file gives each entity a record; here it is the field entity_configs of *)
(* a configuration, read only by the operators below.  A record holds      *)
(* question_template (Absent when the key is missing), use_dynamic_question *)
(* and examples (whether the list of examples is non-empty).               *)

\* self.config.get("entities", {}).get(entity); the None of an unknown
\* entity is given as the empty dict, which is falsy like it
get_entity_config(entity) ==
    IF entity \in DOMAIN config.entity_configs
    THEN config.entity_configs[entity]
    ELSE EmptyMap

\* entity_config.get("question_template", f"Could you please provide: ...")
question_template(entity_config) ==
    IF entity_config.question_template = Absent THEN "default" ELSE "template"

\* a question: raised tells that the call raised instead of returning; text
\* is "default" for "Could you please provide: {entity}?", "template" for the
\* configured template and "generated" for the text of the LLM; examples
\* tells whether a list of examples was appended
question(raised, text, examples) ==
    [raised |-> raised, text |-> text, examples |-> examples]

\* variant: the exception of generate_content reaches the caller
_generate_dynamic_question_raises(entity_config, generation) ==
    IF generation = "raises"
    THEN question(TRUE, None, FALSE)
    ELSE question(FALSE, "generated", FALSE)

\* _generate_dynamic_question: generation is what llm_model.generate_content
\* does, "text" or "raises"; the except branch returns the template
_generate_dynamic_question(entity_config, generation) ==
    IF generation = "raises"
    THEN question(FALSE, question_template(entity_config), FALSE)
    ELSE question(FALSE, "generated", FALSE)

\* get_entity_question(entity, context, use_llm, llm_model), where llm_model
\* tells whether a model object was passed
get_entity_question(entity, use_llm, llm_model, generation) ==
    LET entity_config == get_entity_config(entity)
    IN IF get_entity_config_raises THEN question(TRUE, None, FALSE)
       ELSE IF entity_config = EmptyMap
       THEN question(FALSE, "default", FALSE)
       ELSE IF use_llm /\ entity_config.use_dynamic_question /\ llm_model
       THEN _generate_dynamic_question(entity_config, generation)
       ELSE question(FALSE, question_template(entity_config),
                     entity_config.examples)

----------------------------------------------------------------------------

(* Session store *)

\* the stages a session goes through
Stages == {"initial", "collecting", "confirming_entities", "searching", "complete"}

\* pending_entity_confirmation = None
NoPending == [set |-> FALSE, new_intent |-> None, reusable_entities |-> EmptyMap]

\* the dict stored for a new session at time t (created_at, which is written
\* here and read by no handler, is left out)
new_session(session_id, t) ==
    [id                          |-> session_id,
     last_activity               |-> t,
     collected_entities          |-> EmptyMap,
     conversation_history        |-> <<>>,
     intent                      |-> None,
     stage                       |-> "initial",
     pending_entity_confirmation |-> NoPending]

\* variant: a session exactly one timeout old counts as expired
is_expired_inclusive(session, t) == t - session.last_activity >= SESSION_TIMEOUT

\* datetime.now() - session["last_activity"] > SESSION_TIMEOUT
is_expired(session, t) == t - session.last_activity > SESSION_TIMEOUT

\* del store[session_id]
Del(store, session_id) == [i \in (DOMAIN store) \ {session_id} |-> store[i]]

\* variant: an id that is supplied but not stored (or expired) is kept for
\* the session that is created
get_or_create_session_keeps_id(store, session_id, t, uuid) ==
    LET present == session_id # NoId /\ session_id \in DOMAIN store
        expired == present /\ t - store[session_id].last_activity > SESSION_TIMEOUT
        store1  == IF expired THEN Del(store, session_id) ELSE store
        fresh   == ~(present /\ ~expired)
        id2     == IF session_id = NoId THEN uuid ELSE session_id
        store2  == IF fresh
                   THEN [i \in (DOMAIN store1) \cup {id2} |->
                            IF i = id2 THEN new_session(id2, t) ELSE store1[i]]
                   ELSE store1
    IN [store   |-> [store2 EXCEPT ![id2].last_activity = t],
        id      |-> id2,
        created |-> fresh,
        expired |-> expired]

\* variant: last_activity is set when a session is created and never again
get_or_create_session_no_refresh(store, session_id, t, uuid) ==
    LET present == session_id # NoId /\ session_id \in DOMAIN store
        expired == present /\ is_expired(store[session_id], t)
        store1  == IF expired THEN Del(store, session_id) ELSE store
        id1     == IF present /\ ~expired THEN session_id ELSE NoId
        id2     == IF id1 = NoId THEN uuid ELSE id1
    IN [store   |-> IF id1 = NoId
                    THEN [i \in (DOMAIN store1) \cup {uuid} |->
                             IF i = uuid THEN new_session(uuid, t) ELSE store1[i]]
                    ELSE store1,
        id      |-> id2,
        created |-> id1 = NoId,
        expired |-> expired]

\* variant: every expired session is dropped, not only the one asked for
get_or_create_session_sweeps(store, session_id, t, uuid) ==
    LET present == session_id # NoId /\ session_id \in DOMAIN store
        expired == present /\ is_expired(store[session_id], t)
        store1  == [i \in {j \in DOMAIN store : ~is_expired(store[j], t)} |-> store[i]]
        id1     == IF present /\ ~expired THEN session_id ELSE NoId
        id2     == IF id1 = NoId THEN uuid ELSE id1
        store2  == IF id1 = NoId
                   THEN [i \in (DOMAIN store1) \cup {uuid} |->
                            IF i = uuid THEN new_session(uuid, t) ELSE store1[i]]
                   ELSE store1
    IN [store   |-> [store2 EXCEPT ![id2].last_activity = t],
        id      |-> id2,
        created |-> id1 = NoId,
        expired |-> expired]

\* get_or_create_session(session_id) on the store at time t, where uuid is
\* the identifier uuid4() returns when a session is created.  The result is
\* the store afterwards and the id returned.
get_or_create_session(store, session_id, t, uuid) ==
    LET present == session_id # NoId /\ session_id \in DOMAIN store
        expired == present /\ is_expired(store[session_id], t)
        store1  == IF expired THEN Del(store, session_id) ELSE store
        id1     == IF present /\ ~expired THEN session_id ELSE NoId
        id2     == IF id1 = NoId THEN uuid ELSE id1
        store2  == IF id1 = NoId
                   THEN [i \in (DOMAIN store1) \cup {uuid} |->
                            IF i = uuid THEN new_session(uuid, t) ELSE store1[i]]
                   ELSE store1
    IN [store   |-> [store2 EXCEPT ![id2].last_activity = t],
        id      |-> id2,
        created |-> id1 = NoId,
        expired |-> expired]

----------------------------------------------------------------------------
(* External replies *)

\* what the "intent" key of an NLU reply can hold: a configured intent, a
\* string that is no configured intent, the empty string (falsy in Python),
\* JSON null, or no such key at all
NluIntents == VALID_INTENTS \cup {"Other", "", None, Absent}

\* entity keys of an NLU reply: the configured ones and an unknown one
NluKeys == VALID_ENTITIES \cup {"bogus"}

\* entity values of an NLU reply: empty, or one of two values
NluValues == {"", "x", "y"}

\* the "entities" object of a reply, as the list of its (key, value) items in
\* the order the reply gives them; keys are unique
EntityLists ==
    {e \in UNION {[1..n -> NluKeys \X NluValues] : n \in 0..MaxEntities} :
        \A i, j \in 1..Len(e) : i # j => e[i][1] # e[j][1]}

\* An NLU reply.  ok = FALSE: generate_content raised, or json.loads did, or
\* the JSON is no object.  dict = FALSE: the "entities" value is no object.
NluFailure == [ok |-> FALSE, intent |-> Absent, dict |-> TRUE, entities |-> <<>>]

NluReplies ==
    {NluFailure} \cup
    [ok : {TRUE}, intent : NluIntents, dict : {TRUE}, entities : EntityLists] \cup
    [ok : {TRUE}, intent : NluIntents, dict : {FALSE}, entities : {<<>>}]

\* search_with_you_api: raises, or returns a list of hits (possibly empty)
SearchReplies == {"fail", "empty", "hits"}

----------------------------------------------------------------------------
(* One turn of the dialogue *)

\* extracted.get("intent", "FAQ")
extracted_intent(nlu) == IF nlu.intent = Absent THEN "FAQ" ELSE nlu.intent

\* variant: every extracted entity is stored, whatever its key and value
RECURSIVE merge_entities_unfiltered(_, _, _)
merge_entities_unfiltered(collected, new_entities, intent) ==
    IF new_entities = <<>>
    THEN collected
    ELSE merge_entities_unfiltered(
             Put(collected, Head(new_entities)[1], Head(new_entities)[2]),
             Tail(new_entities), intent)

\* the loop that merges new_entities into session["collected_entities"]
RECURSIVE merge_entities(_, _, _)
merge_entities(collected, new_entities, intent) ==
    IF new_entities = <<>>
    THEN collected
    ELSE LET key   == Head(new_entities)[1]
             value == Head(new_entities)[2]
             rest  == Tail(new_entities)
         IN IF key \in VALID_ENTITIES /\ Truthy(value)
            THEN IF intent = "News" /\ key = "topic"
                 THEN merge_entities(collected, rest, intent)
                 ELSE merge_entities(Put(collected, key, value), rest, intent)
            ELSE merge_entities(collected, rest, intent)

\* the entities of `required` that are absent from `collected` or falsy there
missing_of(required, collected) ==
    SelectSeq(required,
              LAMBDA entity : entity \notin DOMAIN collected
                              \/ ~Truthy(collected[entity]))

\* variant: only the first required entity is looked at
missing_entities_first(session) ==
    LET required == RequiredGet(session.intent)
    IN missing_of(IF required = <<>> THEN required ELSE <<required[1]>>,
                  session.collected_entities)

\* missing_entities of chat: computed from the SESSION intent
missing_entities(session) ==
    missing_of(RequiredGet(session.intent), session.collected_entities)

\* variant: the question of the first required entity, collected or not
determine_next_question_first_required(collected_entities, intent) ==
    LET required == get_required_entities(intent)
    IN IF required = <<>> THEN None ELSE required[1]

\* determine_next_question: the entity whose question is returned, or None
determine_next_question(collected_entities, intent) ==
    LET required == get_required_entities(intent)
        missing  == missing_of(required, collected_entities)
    IN IF required = <<>> THEN None
       ELSE IF missing = <<>> THEN None
       ELSE missing[1]

\* variant: every collected entity is offered for reuse
reusable_entities_any(collected_entities, intent) == collected_entities

\* reusable_entities of chat: the collected entities kept for the new intent
reusable_entities(collected_entities, intent) ==
    Restrict(collected_entities, Range(RequiredGet(intent)))

\* a conversation_history entry (timestamps are not modelled)
entry(role, content) == [role |-> role, content |-> content]

\* what a turn answers.  http is 200 for a ConversationResponse and 500 for
\* the HTTPException of the outer handler.  stages lists the assignments to
\* session["stage"] made during the turn, in order.  reconciliation tells
\* what the intent-change branch did: "none", "confirm" or "clear".
\* search_intent is the intent handed to search_with_you_api, query the
\* base query and search_entities the entities handed to it (None and {}
\* when no search was made).
response(http, status, requires_input, next_question, search_results) ==
    [http           |-> http,
     status         |-> status,
     requires_input |-> requires_input,
     next_question  |-> next_question,
     search_results |-> search_results,
     stages         |-> <<>>,
     reconciliation |-> "none",
     proposed       |-> EmptyMap,
     missing        |-> <<>>,
     ack            |-> None,
     search_intent  |-> None,
     search_entities |-> EmptyMap,
     query          |-> None]

\* the reply of an operation that is no turn
NoResponse == response(200, None, FALSE, None, None)

\* HTTPException(status_code=500) raised by the outer except of chat
http_500 == response(500, None, FALSE, None, None)

\* variant: a completed query is not reset when the next turn starts
start_turn_keeps_completed(session, query) ==
    [session EXCEPT !.conversation_history = Append(@, entry("user", query))]

\* variant: every turn starts by resetting the query
start_turn_resets_always(session, query) ==
    [session EXCEPT
       !.conversation_history = Append(@, entry("user", query)),
       !.collected_entities = EmptyMap,
       !.intent = None,
       !.stage = "initial"]

\* The start of a turn: the user entry is appended and a completed query is
\* reset.
start_turn(session, query) ==
    LET s1 == [session EXCEPT
                 !.conversation_history = Append(@, entry("user", query))]
    IN IF s1.stage = "complete"
       THEN [s1 EXCEPT !.collected_entities = EmptyMap,
                       !.intent = None,
                       !.stage = "initial"]
       ELSE s1

\* variant: the detected intent is taken in every stage
may_update_intent_always(session) == TRUE

\* "if session['stage'] != 'collecting' or not session['intent']"
may_update_intent(session) ==
    session.stage # "collecting" \/ ~Truthy(session.intent)

\* variant: the intent counts as changed even when no entity is collected
intent_changed_ignores_slots(session, intent) ==
    /\ Truthy(session.intent)
    /\ session.intent # intent

\* "if session['intent'] and session['intent'] != intent and
\*  session['collected_entities']"
intent_changed(session, intent) ==
    /\ Truthy(session.intent)
    /\ session.intent # intent
    /\ session.collected_entities # EmptyMap

\* the acknowledged entity of the collecting branch, or None
acknowledged(new_entities, collected) ==
    IF new_entities = <<>> THEN None
    ELSE LET last_entity == new_entities[Len(new_entities)][1]
         IN IF last_entity \in DOMAIN collected THEN last_entity ELSE None

\* variant: the prompt is returned without asking for input
collect_branch_no_input(session, nlu, intent, missing, pre) ==
    LET next_question == determine_next_question(session.collected_entities, intent)
        s0 == [session EXCEPT !.stage = "collecting"]
        s1 == [s0 EXCEPT
                 !.conversation_history = Append(@, entry("assistant", "ask"))]
    IN IF next_question # None /\ get_entity_config_raises
       THEN [session |-> s0,
             resp    |-> [http_500 EXCEPT
                            !.stages = Append(pre.stages, "collecting"),
                            !.reconciliation = pre.reconciliation,
                            !.missing = missing]]
       ELSE [session |-> s1,
             resp    |-> [response(200, "collecting", FALSE, next_question, None) EXCEPT
                            !.stages = Append(pre.stages, "collecting"),
                            !.reconciliation = pre.reconciliation,
                            !.missing = missing,
                            !.ack = acknowledged(nlu.entities,
                                                 session.collected_entities)]]

\* the branch "we need more information"
collect_branch(session, nlu, intent, missing, pre) ==
    LET next_question == determine_next_question(session.collected_entities, intent)
        s0 == [session EXCEPT !.stage = "collecting"]
        s1 == [s0 EXCEPT
                 !.conversation_history = Append(@, entry("assistant", "ask"))]
    IN IF next_question # None /\ get_entity_config_raises
       THEN [session |-> s0,
             resp    |-> [http_500 EXCEPT
                            !.stages = Append(pre.stages, "collecting"),
                            !.reconciliation = pre.reconciliation,
                            !.missing = missing]]
       ELSE [session |-> s1,
             resp    |-> [response(200, "collecting", TRUE, next_question, None) EXCEPT
                            !.stages = Append(pre.stages, "collecting"),
                            !.reconciliation = pre.reconciliation,
                            !.missing = missing,
                            !.ack = acknowledged(nlu.entities,
                                                 session.collected_entities)]]

\* variant: the stage is not set to complete after a successful search
search_branch_stays_searching(session, intent, search, pre) ==
    LET original_query == session.conversation_history[1].content
        s1 == [session EXCEPT
                 !.stage = "searching",
                 !.conversation_history =
                     Append(@, entry("assistant", "acknowledgment"))]
        s2 == [s1 EXCEPT
                 !.conversation_history = Append(@, entry("assistant", "summary"))]
    IN [session |-> IF search # "fail" THEN s2 ELSE s1,
        resp    |-> [response(200, IF search # "fail" THEN "complete" ELSE "error",
                              FALSE, None, IF search # "fail" THEN search ELSE None)
                     EXCEPT !.stages = Append(pre.stages, "searching"),
                            !.reconciliation = pre.reconciliation,
                            !.search_intent = intent,
                            !.search_entities = session.collected_entities,
                            !.query = original_query]]

\* variant: a failed search drops the collected entities
search_branch_clears_on_error(session, intent, search, pre) ==
    LET r == search_branch_stays_searching(session, intent, search, pre)
        s2 == [r.session EXCEPT !.stage = "complete"]
    IN IF search # "fail"
       THEN [session |-> s2,
             resp    |-> [r.resp EXCEPT
                            !.stages = pre.stages \o <<"searching", "complete">>]]
       ELSE [session |-> [r.session EXCEPT !.collected_entities = EmptyMap],
             resp    |-> r.resp]

\* variant: the search is made with the utterance of the turn
search_branch_latest_query(session, intent, search, pre) ==
    LET r == search_branch_stays_searching(session, intent, search, pre)
        latest == session.conversation_history[
                      Len(session.conversation_history)].content
        s2 == [r.session EXCEPT !.stage = "complete"]
    IN IF search # "fail"
       THEN [session |-> s2,
             resp    |-> [r.resp EXCEPT
                            !.stages = pre.stages \o <<"searching", "complete">>,
                            !.query = latest]]
       ELSE [session |-> r.session,
             resp    |-> [r.resp EXCEPT !.query = latest]]

\* the branch "we have all required information, perform search"
search_branch(session, intent, search, pre) ==
    LET original_query == session.conversation_history[1].content
        s1 == [session EXCEPT
                 !.stage = "searching",
                 !.conversation_history =
                     Append(@, entry("assistant", "acknowledgment"))]
        s2 == [s1 EXCEPT
                 !.stage = "complete",
                 !.conversation_history = Append(@, entry("assistant", "summary"))]
    IN IF search # "fail"
       THEN [session |-> s2,
             resp    |-> [response(200, "complete", FALSE, None, search) EXCEPT
                            !.stages = pre.stages \o <<"searching", "complete">>,
                            !.reconciliation = pre.reconciliation,
                            !.search_intent = intent,
                            !.search_entities = session.collected_entities,
                            !.query = original_query]]
       ELSE [session |-> s1,
             resp    |-> [response(200, "error", FALSE, None, None) EXCEPT
                            !.stages = Append(pre.stages, "searching"),
                            !.reconciliation = pre.reconciliation,
                            !.search_intent = intent,
                            !.search_entities = session.collected_entities,
                            !.query = original_query]]

\* variant: the new intent is adopted while the confirmation is pending
confirm_branch_adopts(s2, intent, reusable, reset) ==
    [session |-> [s2 EXCEPT
                    !.pending_entity_confirmation =
                        [set |-> TRUE, new_intent |-> intent,
                         reusable_entities |-> reusable],
                    !.intent = intent,
                    !.stage = "confirming_entities"],
     resp    |-> [response(200, "collecting", TRUE, "confirmation", None)
                  EXCEPT !.stages = Append(reset, "confirming_entities"),
                         !.reconciliation = "confirm",
                         !.proposed = reusable]]

\* the branch "if reusable_entities": the confirmation is stored and asked,
\* and the turn returns
confirm_branch(s2, intent, reusable, reset) ==
    [session |-> [s2 EXCEPT
                    !.pending_entity_confirmation =
                        [set |-> TRUE, new_intent |-> intent,
                         reusable_entities |-> reusable],
                    !.stage = "confirming_entities"],
     resp    |-> [response(200, "collecting", TRUE, "confirmation", None)
                  EXCEPT !.stages = Append(reset, "confirming_entities"),
                         !.reconciliation = "confirm",
                         !.proposed = reusable]]

\* variant: the old entities are kept when the intent changes
adopt_intent_keeps_slots(s2, intent, update, changed) ==
    [s2 EXCEPT !.intent = IF update THEN intent ELSE @]

\* the rest of the intent update when no confirmation is asked: the old
\* entities are cleared if the intent changed, and the intent is assigned
\* if it may be updated
adopt_intent(s2, intent, update, changed) ==
    [s2 EXCEPT !.collected_entities = IF changed THEN EmptyMap ELSE @,
               !.intent = IF update THEN intent ELSE @]

\* the body of chat from the NLU call on, for the session s2 the start of
\* the turn left; reset lists the stage assignment made by that start
chat_after_start(s2, reset, nlu, search) ==
    LET intent == extracted_intent(nlu)
        update == may_update_intent(s2)
        changed == update /\ intent_changed(s2, intent)
        reusable == reusable_entities(s2.collected_entities, intent)
    IN IF ~nlu.ok
       THEN [session |-> s2, resp |-> [http_500 EXCEPT !.stages = reset]]
       ELSE IF changed /\ reusable # EmptyMap
       THEN confirm_branch(s2, intent, reusable, reset)
       ELSE LET s3 == adopt_intent(s2, intent, update, changed)
                pre == [stages |-> reset,
                        reconciliation |-> IF changed THEN "clear" ELSE "none"]
            IN IF ~nlu.dict
               THEN [session |-> s3,
                     resp    |-> [http_500 EXCEPT
                                    !.stages = reset,
                                    !.reconciliation = pre.reconciliation]]
               ELSE LET s4 == [s3 EXCEPT !.collected_entities =
                                   merge_entities(@, nlu.entities, intent)]
                        missing == missing_entities(s4)
                    IN IF missing # <<>> /\ s4.stage # "complete"
                       THEN collect_branch(s4, nlu, intent, missing, pre)
                       ELSE search_branch(s4, intent, search, pre)

\* the stage assignment made by the start of a turn on session0
turn_reset(session0) ==
    IF session0.stage = "complete" THEN <<"initial">> ELSE <<>>

\* the body of chat after get_or_create_session: the session after the turn
\* and the response
chat_turn(session0, query, nlu, search) ==
    chat_after_start(start_turn(session0, query), turn_reset(session0), nlu, search)

----------------------------------------------------------------------------
(* Operations *)

\* the request of the most recent operation and the response it produced
op_record(op, session_id, id, created, expired, query, nlu, search, resp) ==
    [op |-> op, session_id |-> session_id, id |-> id, created |-> created,
     expired |-> expired, query |-> query, nlu |-> nlu, search |-> search,
     resp |-> resp]

\* no operation is being observed
Idle == op_record("idle", NoId, NoId, FALSE, FALSE, None, NluFailure, None, NoResponse)

\* the state after the module is imported: the manager has loaded the
\* shipped file and main.py has copied the lists
Init ==
    /\ tasks = <<>>
    /\ sessions = [i \in {} |-> new_session(i, 0)]
    /\ now = 0
    /\ nextId = 1
    /\ config = shipped_config
    /\ module_globals =
          [VALID_INTENTS               |-> get_valid_intents,
           VALID_ENTITIES              |-> get_valid_entities,
           REQUIRED_ENTITIES_BY_INTENT |-> get_all_required_entities_by_intent]
    /\ last = Idle

\* ids a client can send: none, a foreign one, or one the server issued
\* (whether or not its session is still stored)
RequestIds == {NoId, ForeignId} \cup (1..(nextId - 1))

\* POST /chat with a message of `queries`, a reply of the NLU service of
\* `replies` and, in a turn that searches, the reply of the search service;
\* at most maxIds uuids are ever generated, and a turn starts from a history
\* of at most maxHist entries.
chat(session_id, queries, replies, maxIds, maxHist) ==
    \E g \in {get_or_create_session(sessions, session_id, now, nextId)} :
        /\ g.created => nextId <= maxIds
        /\ Len(g.store[g.id].conversation_history) <= maxHist
        /\ \E query \in queries, nlu \in replies :
           \E r0 \in {chat_turn(g.store[g.id], query, nlu, "fail")} :
           \E search \in IF r0.resp.query = None THEN {None} ELSE SearchReplies :
           \E r \in {IF search \in {None, "fail"} THEN r0
                     ELSE chat_turn(g.store[g.id], query, nlu, search)} :
              /\ sessions' = [g.store EXCEPT ![g.id] = r.session]
              /\ nextId' = IF g.created THEN nextId + 1 ELSE nextId
              /\ last' = op_record("chat", session_id, g.id, g.created, g.expired,
                                   query, nlu, search, r.resp)
              /\ UNCHANGED <<now, config, module_globals>>

\* GET /session/{session_id}
get_session(session_id) ==
    /\ last' = op_record("get", session_id, session_id, FALSE, FALSE, None,
                         NluFailure, None,
                         IF session_id \notin DOMAIN sessions
                         THEN response(404, None, FALSE, None, None)
                         ELSE NoResponse)
    /\ UNCHANGED <<sessions, now, nextId, config, module_globals>>

\* variant: the session is reported deleted but stays in the store
delete_session_keeps(session_id) ==
    /\ sessions' = sessions
    /\ last' = op_record("delete", session_id, session_id, FALSE, FALSE,
                         None, NluFailure, None,
                         IF session_id \in DOMAIN sessions
                         THEN NoResponse
                         ELSE response(404, None, FALSE, None, None))
    /\ UNCHANGED <<now, nextId, config, module_globals>>

\* DELETE /session/{session_id}
delete_session(session_id) ==
    /\ IF session_id \in DOMAIN sessions
       THEN /\ sessions' = Del(sessions, session_id)
            /\ last' = op_record("delete", session_id, session_id, FALSE, FALSE,
                                 None, NluFailure, None, NoResponse)
       ELSE /\ sessions' = sessions
            /\ last' = op_record("delete", session_id, session_id, FALSE, FALSE,
                                 None, NluFailure, None,
                                 response(404, None, FALSE, None, None))
    /\ UNCHANGED <<now, nextId, config, module_globals>>

\* variant: every extracted key is returned, configured or not
filtered_entities_all(entities) ==
    [k \in {entities[i][1] : i \in 1..Len(entities)} |->
        entities[CHOOSE i \in 1..Len(entities) : entities[i][1] = k][2]]

\* filtered_entities of detect_intent_entities: the items of the reply whose
\* key is in VALID_ENTITIES, whatever their value
filtered_entities(entities) ==
    [k \in {entities[i][1] : i \in 1..Len(entities)} \cap VALID_ENTITIES |->
        entities[CHOOSE i \in 1..Len(entities) : entities[i][1] = k][2]]

\* what POST /detect answers: an IntentResponse (http 200) or the
\* HTTPException of the handler (http 500); the "missing" list and the
\* confidence, which are copied from the reply, are not modelled
IntentResponse(http, intent, entities) ==
    [http |-> http, intent |-> intent, entities |-> entities]

\* POST /detect for a text the NLU service answers with `nlu`.  A reply
\* whose "intent" is not in VALID_INTENTS raises ValueError, and a reply
\* whose "entities" is no object raises at .items(); both, like a failure of
\* the service (or an unset API key), are answered with HTTP 500.
detect_intent_entities(nlu) ==
    /\ last' = op_record("detect", NoId, NoId, FALSE, FALSE, None, nlu, None,
                         IF ~nlu.ok \/ nlu.intent \notin VALID_INTENTS \/ ~nlu.dict
                         THEN IntentResponse(500, None, EmptyMap)
                         ELSE IntentResponse(200, nlu.intent,
                                             filtered_entities(nlu.entities)))
    /\ UNCHANGED <<sessions, now, nextId, config, module_globals>>

\* POST /config/reload while the file is in state `name`.  reload_config
\* assigns self.config as soon as the file is read; the three module-level
\* names are then assigned one after the other, and an exception on the way
\* is answered with HTTP 500.  `last.query` holds the state of the file.
reload_configuration(name) ==
    LET loaded == _load_config(name)
        answer(http) ==
            [op_record("reload", NoId, NoId, FALSE, FALSE, None, NluFailure,
                       None, response(http, None, FALSE, None, None))
             EXCEPT !.query = name]
    IN /\ IF loaded.raised
          THEN /\ config' = config
               /\ module_globals' = module_globals
               /\ last' = answer(500)
          ELSE /\ config' = loaded.config
               /\ IF get_entity_config_raises'
                  THEN /\ module_globals' =
                             [module_globals EXCEPT
                                !.VALID_INTENTS = get_valid_intents']
                       /\ last' = answer(500)
                  ELSE /\ module_globals' =
                             [VALID_INTENTS  |-> get_valid_intents',
                              VALID_ENTITIES |-> get_valid_entities',
                              REQUIRED_ENTITIES_BY_INTENT |->
                                  get_all_required_entities_by_intent']
                       /\ last' = answer(200)
       /\ UNCHANGED <<sessions, now, nextId>>

\* an hour passes
Tick ==
    /\ now < MaxTime
    /\ now' = now + 1
    /\ UNCHANGED <<sessions, nextId, last, config, module_globals>>

\* `last` only observes the most recent request and its response; it is
\* forgotten before the next request is taken
Forget ==
    /\ last.op # "idle"
    /\ last' = Idle
    /\ UNCHANGED <<sessions, now, nextId, config, module_globals, tasks>>

----------------------------------------------------------------------------
(* Specification of the dialogue: one conversation, every NLU reply *)

\* the user's messages of the dialogue specification
Queries == {"q1"}

Request ==
    \/ \E session_id \in RequestIds : chat(session_id, Queries, NluReplies, 1, MaxHist)
    \/ \E session_id \in RequestIds \ {NoId} : get_session(session_id)
    \/ \E session_id \in RequestIds \ {NoId} : delete_session(session_id)

Next ==
    \/ last.op = "idle" /\ Request /\ UNCHANGED tasks
    \/ Forget

Spec == Init /\ [][Next]_vars

----------------------------------------------------------------------------
(* Specification of the session store: several sessions, the clock runs,   *)
(* and the NLU replies are a failure, a reply that leaves a slot missing   *)
(* and a reply that completes the query                                    *)

StoreNluReplies ==
    {NluFailure,
     [ok |-> TRUE, intent |-> "FAQ", dict |-> TRUE, entities |-> <<>>],
     [ok |-> TRUE, intent |-> "FAQ", dict |-> TRUE, entities |-> <<<<"topic", "x">>>>]}

StoreRequest ==
    \/ \E session_id \in RequestIds :
          chat(session_id, Queries, StoreNluReplies, MaxSessions, StoreHist)
    \/ \E session_id \in RequestIds \ {NoId} : get_session(session_id)
    \/ \E session_id \in RequestIds \ {NoId} : delete_session(session_id)
    \/ Tick

StoreNext ==
    \/ last.op = "idle" /\ StoreRequest /\ UNCHANGED tasks
    \/ Forget

StoreSpec == Init /\ [][StoreNext]_vars

----------------------------------------------------------------------------
(* Guardrail of the specification (section 4.2); main.py has no such step *)

\* isOnTopic: a greeting of one word is rejected, a question about insurance
\* is accepted
isOnTopic(utterance) == utterance # "hi"

----------------------------------------------------------------------------
(* Specification of the reloads: one conversation whose messages are on or *)
(* off topic, and reloads of the configuration file in any of its states   *)

\* the user's messages: one about insurance and a greeting
ReloadQueries == {"q1", "hi"}

ReloadNluReplies ==
    {[ok |-> TRUE, intent |-> "General", dict |-> TRUE, entities |-> <<>>],
     [ok |-> TRUE, intent |-> "General", dict |-> TRUE,
      entities |-> <<<<"county", "x">>>>],
     [ok |-> TRUE, intent |-> "FAQ", dict |-> TRUE,
      entities |-> <<<<"topic", "x">>>>]}

ReloadRequest ==
    \/ \E session_id \in RequestIds :
          chat(session_id, ReloadQueries, ReloadNluReplies, 1, ReloadHist)
    \/ \E name \in ConfigFileNames : reload_configuration(name)

ReloadNext ==
    \/ last.op = "idle" /\ ReloadRequest /\ UNCHANGED tasks
    \/ Forget

ReloadSpec == Init /\ [][ReloadNext]_vars

----------------------------------------------------------------------------
(* Specification of the event loop: requests are accepted while others     *)
(* wait, and the loop runs one handler at a time, from where it stands to  *)
(* its next await or to its end                                            *)

\* variant: the Gemini call is awaited, so chat yields to the loop there
chat_awaits_nlu_as_coroutine == TRUE

\* whether chat yields to the loop at its NLU call: generate_content is
\* called without await, and no other await is in the handler
chat_awaits_nlu == FALSE

\* the coroutine of chat for a request that was accepted and has not run:
\* pc is "start", or "nlu" once it is suspended at the NLU call; id is the
\* session it runs on, reset what turn_reset gave and seen the session as
\* its first part left it
new_task(session_id, query) ==
    [session_id |-> session_id, query |-> query, pc |-> "start", id |-> NoId,
     reset |-> <<>>, seen |-> new_session(NoId, 0)]

\* a list without its k-th element
Without(seq, k) == SubSeq(seq, 1, k - 1) \o SubSeq(seq, k + 1, Len(seq))

\* the server accepts a POST /chat request
accept(session_id, query) ==
    /\ Len(tasks) < MaxTasks
    /\ tasks' = Append(tasks, new_task(session_id, query))
    /\ UNCHANGED <<sessions, now, nextId, last, config, module_globals>>

\* the loop runs the coroutine of task k up to its next await or its end
run(k) ==
    LET t == tasks[k]
    IN IF t.pc = "start"
       THEN IF chat_awaits_nlu
            THEN \E g \in {get_or_create_session(sessions, t.session_id, now, nextId)} :
                    /\ g.created => nextId <= 1
                    /\ Len(g.store[g.id].conversation_history) <= LoopHist
                    /\ sessions' = [g.store EXCEPT
                                       ![g.id] = start_turn(@, t.query)]
                    /\ tasks' = [tasks EXCEPT ![k] =
                                    [t EXCEPT !.pc = "nlu",
                                              !.id = g.id,
                                              !.reset = turn_reset(g.store[g.id]),
                                              !.seen = start_turn(g.store[g.id],
                                                                  t.query)]]
                    /\ nextId' = IF g.created THEN nextId + 1 ELSE nextId
                    /\ UNCHANGED <<now, last, config, module_globals>>
            ELSE /\ chat(t.session_id, {t.query}, StoreNluReplies, 1, LoopHist)
                 /\ tasks' = Without(tasks, k)
       ELSE /\ t.id \in DOMAIN sessions
            /\ \E nlu \in StoreNluReplies, search \in SearchReplies :
               \E r \in {chat_after_start(sessions[t.id], t.reset, nlu, search)} :
                  /\ sessions' = [sessions EXCEPT ![t.id] = r.session]
                  /\ last' = op_record("chat", t.session_id, t.id, FALSE, FALSE,
                                       t.query, nlu,
                                       IF r.resp.query = None THEN None ELSE search,
                                       r.resp)
                  /\ tasks' = Without(tasks, k)
                  /\ UNCHANGED <<now, nextId, config, module_globals>>

LoopRequest ==
    \/ \E session_id \in RequestIds, query \in Queries : accept(session_id, query)
    \/ \E k \in 1..Len(tasks) : run(k)
    \/ \E session_id \in RequestIds \ {NoId} :
          get_session(session_id) /\ UNCHANGED tasks

LoopNext ==
    \/ last.op = "idle" /\ LoopRequest
    \/ Forget

\* the loop keeps running what is ready
LoopSpec == Init /\ [][LoopNext]_vars /\ WF_vars(LoopNext)

----------------------------------------------------------------------------
(* Specification of the detection endpoint: every NLU reply, next to a     *)
(* conversation that fills the session store                               *)

DetectRequest ==
    \/ \E session_id \in RequestIds :
          chat(session_id, Queries, StoreNluReplies, 1, StoreHist)
    \/ \E nlu \in NluReplies : detect_intent_entities(nlu)

DetectNext ==
    \/ last.op = "idle" /\ DetectRequest /\ UNCHANGED tasks
    \/ Forget

DetectSpec == Init /\ [][DetectNext]_vars

----------------------------------------------------------------------------

(* Specification of the registry: the manager has loaded a configuration   *)
(* file with one intent, General, whose lists are any lists of entities,   *)
(* and one entity, county, configured in any way; its lookups are called   *)

\* lists of distinct entities, as an intent of the file can give them
SlotLists ==
    {l \in UNION {[1..n -> config_entities] : n \in 0..MaxSlots} :
        \A i, j \in 1..Len(l) : i # j => l[i] # l[j]}

\* the objects an intent of the file can be: with required_entities, with
\* or without entity_order, and with neither
IntentConfigs ==
    {[required_entities |-> r] : r \in SlotLists}
    \cup {[required_entities |-> r, entity_order |-> o] :
             r \in SlotLists, o \in SlotLists}
    \cup {[optional_entities |-> o] : o \in {<<>>}}

\* the objects an entity of the file can be
EntityConfigs ==
    [question_template : {Absent, "template"},
     use_dynamic_question : BOOLEAN,
     examples : BOOLEAN]

\* the configuration files of the registry specification
RegistryConfigs ==
    {[intents |-> [General |-> c],
      entities |-> config_entities,
      entities_is_object |-> TRUE,
      entity_configs |-> [e \in config_entities |->
                             IF e = "county" THEN q
                             ELSE [question_template |-> "template",
                                   use_dynamic_question |-> FALSE,
                                   examples |-> FALSE]]] :
        c \in IntentConfigs, q \in EntityConfigs}

RegistryInit ==
    /\ tasks = <<>>
    /\ sessions = [i \in {} |-> new_session(i, 0)]
    /\ now = 0
    /\ nextId = 1
    /\ config \in RegistryConfigs
    /\ module_globals =
          [VALID_INTENTS               |-> get_valid_intents,
           VALID_ENTITIES              |-> get_valid_entities,
           REQUIRED_ENTITIES_BY_INTENT |-> get_all_required_entities_by_intent]
    /\ last = Idle

\* a call of config_manager.get_required_entities(intent)
call_get_required_entities(intent) ==
    /\ last' = op_record("required", NoId, NoId, FALSE, FALSE, intent,
                         NluFailure, None,
                         [result |-> get_required_entities(intent)])
    /\ UNCHANGED <<sessions, now, nextId, config, module_globals>>

\* a call of config_manager.get_entity_question(entity, context, use_llm,
\* llm_model) during which generate_content, if called, does `generation`
call_get_entity_question(entity, use_llm, llm_model, generation) ==
    /\ last' = op_record("question", NoId, NoId, FALSE, FALSE, entity,
                         NluFailure, None,
                         [use_llm    |-> use_llm,
                          llm_model  |-> llm_model,
                          generation |-> generation,
                          result     |-> get_entity_question(entity, use_llm,
                                                             llm_model, generation)])
    /\ UNCHANGED <<sessions, now, nextId, config, module_globals>>

RegistryRequest ==
    \/ \E intent \in {"General", "Other"} : call_get_required_entities(intent)
    \/ \E entity \in {"county", "bogus"}, use_llm \in BOOLEAN, llm_model \in BOOLEAN,
          generation \in {"text", "raises"} :
          call_get_entity_question(entity, use_llm, llm_model, generation)

RegistryNext ==
    \/ last.op = "idle" /\ RegistryRequest /\ UNCHANGED tasks
    \/ Forget

RegistrySpec == RegistryInit /\ [][RegistryNext]_vars

----------------------------------------------------------------------------

(* Specification of the history: one conversation whose utterances differ, *)
(* long enough for a second query after a completed one                    *)

\* the user's messages of the history specification
HistoryQueries == {"q1", "q2"}

HistoryRequest ==
    \/ \E session_id \in RequestIds :
          chat(session_id, HistoryQueries, StoreNluReplies, 1, MaxHist)
    \/ \E session_id \in RequestIds \ {NoId} : get_session(session_id)
    \/ \E session_id \in RequestIds \ {NoId} : delete_session(session_id)

HistoryNext ==
    \/ last.op = "idle" /\ HistoryRequest /\ UNCHANGED tasks
    \/ Forget

HistorySpec == Init /\ [][HistoryNext]_vars

----------------------------------------------------------------------------

(* Specification of session isolation: several sessions, the clock and the *)
(* expiry, with a failing language model call and a reply that fills a slot *)

\* the replies of the language model in the isolation specification
IsolationNluReplies ==
    {NluFailure,
     [ok |-> TRUE, intent |-> "FAQ", dict |-> TRUE, entities |-> <<<<"topic", "x">>>>]}

IsolationRequest ==
    \/ \E session_id \in RequestIds :
          chat(session_id, Queries, IsolationNluReplies, MaxSessions, StoreHist)
    \/ \E session_id \in RequestIds \ {NoId} : get_session(session_id)
    \/ \E session_id \in RequestIds \ {NoId} : delete_session(session_id)
    \/ Tick

IsolationNext ==
    \/ last.op = "idle" /\ IsolationRequest /\ UNCHANGED tasks
    \/ Forget

IsolationSpec == Init /\ [][IsolationNext]_vars

----------------------------------------------------------------------------

(* Properties *)

\* entity e is absent from the collected slots of session s, or empty there
Lacks(s, e) ==
    e \notin DOMAIN s.collected_entities \/ s.collected_entities[e] = ""

\* the required slots of the session's topic that it still lacks, in
\* registry order
StillMissing(s) ==
    SelectSeq(get_required_entities(s.intent), LAMBDA e : Lacks(s, e))

\* the most recent operation was a turn that returned a ConversationResponse
\* for a session that is stored
TurnAnswered ==
    last.op = "chat" /\ last.resp.http = 200 /\ last.id \in DOMAIN sessions

\* the step is a turn on a session that was already stored
ContinuingTurn ==
    /\ last'.op = "chat"
    /\ ~last'.created
    /\ last'.id \in DOMAIN sessions
    /\ last'.id \in DOMAIN sessions'

\* C1: every session in stage complete holds a non-empty value for every
\* required slot of its topic.
C1_CompleteHasRequired ==
    \A i \in DOMAIN sessions :
        sessions[i].stage = "complete" => StillMissing(sessions[i]) = <<>>

\* a session completed a General query, which requires two slots
C1_Witness ==
    \E i \in DOMAIN sessions :
        /\ sessions[i].stage = "complete"
        /\ sessions[i].intent = "General"
        /\ Len(get_required_entities("General")) = 2

\* C2: every session whose stage is not initial has a non-null topic.
C2_StageImpliesTopic ==
    \A i \in DOMAIN sessions :
        sessions[i].stage # "initial" => sessions[i].intent # None

\* C3: a turn that ends with a required slot of the session's topic missing
\* leaves the session collecting and returns requires_input = true with the
\* prompt for the first missing required slot of the session's topic.
C3_PromptForFirstMissing ==
    (TurnAnswered /\ StillMissing(sessions[last.id]) # <<>>)
    => /\ sessions[last.id].stage = "collecting"
       /\ last.resp.requires_input
       /\ last.resp.next_question = StillMissing(sessions[last.id])[1]

\* C4: when a collecting session is given exactly the slot it was asked
\* for, the turn prompts for the next missing required slot in registry
\* order, or searches when none is left.
C4_PromptsFollowRegistryOrder ==
    [][(/\ ContinuingTurn
        /\ last'.resp.http = 200
        /\ sessions[last'.id].stage = "collecting"
        /\ StillMissing(sessions[last'.id]) # <<>>
        /\ last'.nlu.ok /\ last'.nlu.dict
        /\ Len(last'.nlu.entities) = 1
        /\ last'.nlu.entities[1][1] = StillMissing(sessions[last'.id])[1]
        /\ last'.nlu.entities[1][2] # "")
       => LET rest == Tail(StillMissing(sessions[last'.id]))
          IN IF rest = <<>>
             THEN /\ sessions'[last'.id].stage \in {"searching", "complete"}
                  /\ last'.resp.next_question = None
             ELSE /\ sessions'[last'.id].stage = "collecting"
                  /\ last'.resp.next_question = rest[1]]_vars

\* C5: a turn whose merge leaves no required slot of the session's topic
\* missing searches in that same turn: the stage goes to searching and, when
\* the search succeeds, to complete, and the response carries the results
\* with requires_input = false and no next question.
C5_SearchesWhenNothingMissing ==
    (/\ TurnAnswered
     /\ last.resp.reconciliation # "confirm"
     /\ StillMissing(sessions[last.id]) = <<>>)
    => /\ last.resp.next_question = None
       /\ ~last.resp.requires_input
       /\ last.search # None
       /\ last.search # "fail" =>
             /\ sessions[last.id].stage = "complete"
             /\ Len(last.resp.stages) >= 2
             /\ SubSeq(last.resp.stages, Len(last.resp.stages) - 1,
                       Len(last.resp.stages)) = <<"searching", "complete">>
             /\ last.resp.status = "complete"
             /\ last.resp.search_results = last.search
       /\ last.search = "fail" =>
             /\ sessions[last.id].stage = "searching"
             /\ last.resp.status = "error"

\* a session that had been asked for a slot completed its search
C5_Witness ==
    /\ TurnAnswered
    /\ last.resp.status = "complete"
    /\ last.resp.stages = <<"searching", "complete">>
    /\ \E k \in 1..Len(sessions[last.id].conversation_history) :
          sessions[last.id].conversation_history[k] = entry("assistant", "ask")

\* the step is a turn in which the intent-change branch ran for the
\* detected topic
ReconciliationRuns ==
    /\ ContinuingTurn
    /\ last'.resp.reconciliation \in {"confirm", "clear"}

C7_PendingOnlyWhileConfirming ==
    \A i \in DOMAIN sessions :
        sessions[i].pending_entity_confirmation.set
        => sessions[i].stage = "confirming_entities"

\* C8: the turn after one that put the session in stage confirming clears
\* the pending-reconciliation record and leaves the stage confirming.
C8_ConfirmationResolvedNextTurn ==
    [][(/\ ContinuingTurn
        /\ sessions[last'.id].stage = "confirming_entities"
        /\ last'.nlu.ok /\ last'.nlu.dict)
       => /\ ~sessions'[last'.id].pending_entity_confirmation.set
          /\ sessions'[last'.id].stage # "confirming_entities"]_vars

\* the user entries of a conversation history
UserEntries(h) == SelectSeq(h, LAMBDA m : m.role = "user")

\* session s is a new session that has seen only the turn just taken
FreshAfterTurn(s) ==
    /\ s.conversation_history # <<>>
    /\ s.conversation_history[1] = entry("user", last'.query)
    /\ Len(UserEntries(s.conversation_history)) = 1
    /\ s.last_activity = now'
    /\ ~s.pending_entity_confirmation.set
    /\ ~last'.nlu.ok =>
          /\ s.stage = "initial"
          /\ s.intent = None
          /\ s.collected_entities = EmptyMap
          /\ s.conversation_history = <<entry("user", last'.query)>>

\* C9: a turn with the id of a stored session that was last active strictly
\* more than one hour ago deletes that session and runs on a fresh session
\* under a new id; with a session at most one hour old it runs on that
\* session under the same id.
C9_ExpiryOnGetOrCreate ==
    [][(last'.op = "chat" /\ last'.session_id \in DOMAIN sessions)
       => LET k   == last'.session_id
              old == sessions[k]
          IN IF now - old.last_activity > SESSION_TIMEOUT
             THEN /\ k \notin DOMAIN sessions'
                  /\ last'.id # k
                  /\ last'.id \notin DOMAIN sessions
                  /\ last'.id \in DOMAIN sessions'
                  /\ FreshAfterTurn(sessions'[last'.id])
             ELSE /\ last'.id = k
                  /\ k \in DOMAIN sessions'
                  /\ Len(sessions'[k].conversation_history)
                        > Len(old.conversation_history)
                  /\ SubSeq(sessions'[k].conversation_history, 1,
                            Len(old.conversation_history))
                        = old.conversation_history
                  /\ sessions'[k].last_activity = now
                  /\ DOMAIN sessions' = DOMAIN sessions]_vars

\* a turn named a stored session that had expired
C9_Witness ==
    /\ last.op = "chat"
    /\ last.expired
    /\ last.session_id \notin DOMAIN sessions
    /\ last.id \in DOMAIN sessions

\* C10: a turn with no id, or with an id that is not stored, runs on a new
\* session stored under a newly generated id, which is not the supplied one,
\* and leaves every other stored session unchanged.
C10_NewIdWhenAbsent ==
    [][(last'.op = "chat" /\ last'.session_id \notin DOMAIN sessions)
       => /\ last'.id # last'.session_id
          /\ last'.id \notin DOMAIN sessions
          /\ DOMAIN sessions' = DOMAIN sessions \cup {last'.id}
          /\ \A j \in DOMAIN sessions : sessions'[j] = sessions[j]
          /\ FreshAfterTurn(sessions'[last'.id])]_vars

\* a turn with an id that was never issued created a session beside a
\* stored one
C10_Witness ==
    /\ last.op = "chat"
    /\ last.session_id = ForeignId
    /\ last.id \in DOMAIN sessions
    /\ Cardinality(DOMAIN sessions) = 2

\* the last turn of session s was one whose search failed: nothing was added
\* to the history after the acknowledgment that precedes the search
SearchJustFailed(s) ==
    /\ s.stage = "searching"
    /\ s.conversation_history # <<>>
    /\ s.conversation_history[Len(s.conversation_history)]
          = entry("assistant", "acknowledgment")

\* C11: a turn whose search fails answers with status error and leaves the
\* session in stage searching with exactly the slots that were handed to the
\* search, nothing required missing and the topic the turn searched under; and the turn that follows it, when
\* it is on the same topic, searches again without asking for any slot.
C11_SearchFailureKeepsSlots ==
    [][/\ (last'.op = "chat" /\ last'.resp.status = "error")
          => /\ last'.id \in DOMAIN sessions'
             /\ sessions'[last'.id].stage = "searching"
             /\ sessions'[last'.id].collected_entities = last'.resp.search_entities
             /\ StillMissing(sessions'[last'.id]) = <<>>
             /\ sessions'[last'.id].intent =
                   IF /\ ~last'.created
                      /\ sessions[last'.id].stage = "collecting"
                      /\ sessions[last'.id].intent \notin {None, ""}
                   THEN sessions[last'.id].intent
                   ELSE extracted_intent(last'.nlu)
       /\ (/\ ContinuingTurn
           /\ SearchJustFailed(sessions[last'.id])
           /\ last'.nlu.ok /\ last'.nlu.dict
           /\ extracted_intent(last'.nlu) = sessions[last'.id].intent)
          => /\ last'.search # None
             /\ ~last'.resp.requires_input
             /\ last'.resp.next_question = None
             /\ last'.resp.search_entities = sessions'[last'.id].collected_entities
             /\ DOMAIN sessions[last'.id].collected_entities
                   \subseteq DOMAIN sessions'[last'.id].collected_entities]_vars

\* a search failed for a session that holds a slot, and the turn after it, on
\* the same topic and without any entity, searched again and succeeded
C11_Witness ==
    /\ TurnAnswered
    /\ ~last.created
    /\ last.resp.status = "complete"
    /\ last.nlu.entities = <<>>
    /\ sessions[last.id].collected_entities # EmptyMap
    /\ sessions[last.id].intent = extracted_intent(last.nlu)
    /\ Len(UserEntries(sessions[last.id].conversation_history)) = 2
    /\ Len(sessions[last.id].conversation_history) = 5

\* C12: a turn whose NLU call fails, or whose NLU reply cannot be parsed,
\* leaves the session's collected slots, topic and stage as they were before
\* the turn, whatever the stage was.
C12_NluFailureKeepsSession ==
    [][(ContinuingTurn /\ ~last'.nlu.ok)
       => /\ last'.resp.http = 500
          /\ sessions'[last'.id].collected_entities
                = sessions[last'.id].collected_entities
          /\ sessions'[last'.id].intent = sessions[last'.id].intent
          /\ sessions'[last'.id].stage = sessions[last'.id].stage]_vars

\* C13: the topic of a session, when it is not null, is one of the topics of
\* the registry.
C13_TopicIsKnown ==
    \A i \in DOMAIN sessions :
        sessions[i].intent # None => sessions[i].intent \in get_valid_intents

\* the step is a turn on a collecting session whose NLU reply holds exactly
\* one entity: a required slot of the session's topic that the session
\* already holds, with the value it holds
ResubmitsSatisfiedSlot ==
    /\ ContinuingTurn
    /\ sessions[last'.id].stage = "collecting"
    /\ last'.nlu.ok /\ last'.nlu.dict
    /\ Len(last'.nlu.entities) = 1
    /\ LET key   == last'.nlu.entities[1][1]
           value == last'.nlu.entities[1][2]
           s     == sessions[last'.id]
       IN /\ key \in Range(get_required_entities(s.intent))
          /\ key \in DOMAIN s.collected_entities
          /\ value # ""
          /\ s.collected_entities[key] = value

\* C14: submitting again an already satisfied required slot with the same
\* value to a collecting session changes neither the collected slots nor the
\* missing list, and the turn does not prompt for that slot.
C14_ResubmissionIsIdempotent ==
    [][ResubmitsSatisfiedSlot
       => /\ sessions'[last'.id].collected_entities
                = sessions[last'.id].collected_entities
          /\ StillMissing(sessions'[last'.id]) = StillMissing(sessions[last'.id])
          /\ last'.resp.missing = StillMissing(sessions[last'.id])
          /\ last'.resp.next_question # last'.nlu.entities[1][1]]_vars

\* a collecting General session that holds its county was sent the same
\* county again and was asked for its age
C14_Witness ==
    /\ TurnAnswered
    /\ ~last.created
    /\ sessions[last.id].stage = "collecting"
    /\ sessions[last.id].intent = "General"
    /\ Len(UserEntries(sessions[last.id].conversation_history)) >= 2
    /\ Len(last.nlu.entities) = 1
    /\ last.nlu.entities[1][1] = "county"
    /\ "county" \in DOMAIN sessions[last.id].collected_entities
    /\ sessions[last.id].collected_entities["county"] = last.nlu.entities[1][2]
    /\ last.resp.missing = <<"age">>
    /\ last.resp.next_question = "age"

\* C16: fetching a session answers 404 exactly when the id is not stored or
\* the stored session was last active more than one hour ago.
C16_FetchHidesExpired ==
    last.op = "get"
    => (last.resp.http = 404
        <=> \/ last.session_id \notin DOMAIN sessions
            \/ now - sessions[last.session_id].last_activity > SESSION_TIMEOUT)

\* C17: deleting a stored id removes exactly that session and deleting an
\* id that is not stored answers 404 and changes nothing; an id that is not
\* stored is answered 404 when fetched, and a turn that supplies it runs on
\* a fresh session under another id.
C17_DeleteRemovesExactlyOne ==
    [][/\ last'.op = "delete"
          => IF last'.session_id \in DOMAIN sessions
             THEN /\ last'.resp.http = 200
                  /\ DOMAIN sessions' = DOMAIN sessions \ {last'.session_id}
                  /\ \A j \in DOMAIN sessions' : sessions'[j] = sessions[j]
             ELSE /\ last'.resp.http = 404
                  /\ sessions' = sessions
       /\ (last'.op = "get" /\ last'.session_id \notin DOMAIN sessions)
          => last'.resp.http = 404
       /\ (last'.op = "chat" /\ last'.session_id \notin DOMAIN sessions)
          => /\ last'.created
             /\ last'.id # last'.session_id
             /\ last'.id \in DOMAIN sessions'
             /\ last'.session_id \notin DOMAIN sessions'
             /\ Len(UserEntries(sessions'[last'.id].conversation_history)) = 1]_vars

\* an id the server had issued was deleted (no time has passed, so it did
\* not expire) and the turn that supplied it got a session under another id
C17_Witness ==
    /\ last.op = "chat"
    /\ now = 0
    /\ last.session_id \in 1..(nextId - 1)
    /\ last.session_id \notin DOMAIN sessions
    /\ last.created
    /\ last.id \in DOMAIN sessions
    /\ last.id # last.session_id

\* C15: a turn on a session that is not collecting whose utterance fails the
\* guardrail is rejected before any NLU call: no question is asked, nothing
\* is searched, and the session only gains the utterance in its history;
\* on a collecting session the utterance is processed whatever it is.
C15_GuardrailRejectsOffTopic ==
    [][(/\ last'.op = "chat"
        /\ last'.id \in DOMAIN sessions'
        /\ ~isOnTopic(last'.query))
       => LET pre == IF last'.created THEN new_session(last'.id, now)
                     ELSE sessions[last'.id]
          IN pre.stage # "collecting"
             => /\ sessions'[last'.id] =
                      [pre EXCEPT !.conversation_history =
                                      Append(@, entry("user", last'.query)),
                                  !.last_activity = now]
                /\ last'.resp.next_question = None
                /\ last'.search = None]_vars

\* C18: the lists a turn reads are of one configuration version: the
\* module-level copies (known topics, known slots, required slots by topic)
\* equal what the registry holds, so that a turn whose detected topic is the
\* session's topic prompts for the first slot of its missing list.
C18_ReadersSeeOneVersion ==
    /\ VALID_INTENTS = get_valid_intents
    /\ ~get_entity_config_raises
    /\ VALID_ENTITIES = get_valid_entities
    /\ REQUIRED_ENTITIES_BY_INTENT = get_all_required_entities_by_intent
    /\ (/\ TurnAnswered
        /\ last.resp.status = "collecting"
        /\ last.resp.reconciliation = "none"
        /\ extracted_intent(last.nlu) = sessions[last.id].intent)
       => /\ last.resp.missing # <<>>
          /\ last.resp.next_question = last.resp.missing[1]

\* the file's topic and slot definitions are missing or malformed
DefinitionsMissingOrMalformed(name) ==
    name \in {"absent", "invalid_json", "no_definitions", "entities_list"}

\* C19: a reload that finds the definitions missing or malformed fails with
\* an error and leaves the configuration and its copies as they were; the
\* registry never holds an empty configuration.
C19_FailedReloadKeepsConfiguration ==
    [][(last'.op = "reload" /\ DefinitionsMissingOrMalformed(last'.query))
       => /\ last'.resp.http = 500
          /\ config' = config
          /\ module_globals' = module_globals
          /\ get_valid_intents' # {}]_vars

\* a turn is in progress (suspended between its start and its end) on a
\* session that another turn has changed since, or on which another turn is
\* in progress too
Interleaved ==
    \E k \in 1..Len(tasks) :
        /\ tasks[k].pc # "start"
        /\ \/ /\ tasks[k].id \in DOMAIN sessions
              /\ sessions[tasks[k].id] # tasks[k].seen
           \/ \E j \in 1..Len(tasks) :
                 j # k /\ tasks[j].pc # "start" /\ tasks[j].id = tasks[k].id

ReplyKeys(nlu) == {nlu.entities[i][1] : i \in 1..Len(nlu.entities)}

\* C21: POST /detect either fails with an error or returns an intent that is
\* a known intent and exactly the extracted entities whose key is a known
\* slot id, with the values the reply gave; it never returns an unknown
\* intent, and it leaves the session store as it was.
C21_DetectReturnsKnownOrFails ==
    [][last'.op = "detect"
       => /\ sessions' = sessions
          /\ last'.resp.http \in {200, 500}
          /\ last'.resp.http = 200
             => /\ last'.resp.intent \in get_valid_intents
                /\ last'.resp.intent = last'.nlu.intent
                /\ DOMAIN last'.resp.entities \subseteq get_valid_entities
                /\ DOMAIN last'.resp.entities =
                       ReplyKeys(last'.nlu) \cap get_valid_entities
                /\ \A i \in 1..Len(last'.nlu.entities) :
                      last'.nlu.entities[i][1] \in get_valid_entities
                      => last'.resp.entities[last'.nlu.entities[i][1]] =
                             last'.nlu.entities[i][2]
          /\ (last'.nlu.ok /\ last'.nlu.intent \notin get_valid_intents)
             => last'.resp.http = 500]_vars

\* a detection whose reply names a known intent and an unknown key was
\* answered without that key while a session was stored
C21_Witness ==
    /\ last.op = "detect"
    /\ last.resp.http = 200
    /\ "bogus" \in ReplyKeys(last.nlu)
    /\ "bogus" \notin DOMAIN last.resp.entities
    /\ sessions # [i \in {} |-> new_session(i, 0)]

\* C22: every turn leaves the session it ran on with last_activity equal to
\* the current time, and no other step changes the last_activity of a
\* session that stays stored; so a turn on a stored session whose previous
\* turn is at most one timeout old finds it unexpired and runs on it.
C22_TurnRefreshesActivity ==
    [][/\ last'.op = "chat"
          => /\ last'.id \in DOMAIN sessions'
             /\ sessions'[last'.id].last_activity = now
             /\ (/\ last'.session_id \in DOMAIN sessions
                 /\ now - sessions[last'.session_id].last_activity <= SESSION_TIMEOUT)
                => /\ ~last'.expired
                   /\ ~last'.created
                   /\ last'.id = last'.session_id
       /\ \A i \in DOMAIN sessions \cap DOMAIN sessions' :
             (last'.op # "chat" \/ last'.id # i)
             => sessions'[i].last_activity = sessions[i].last_activity]_vars

\* a session that was created two timeouts ago and had a turn one timeout
\* ago is stored and not expired
C22_Witness ==
    \E i \in DOMAIN sessions :
        /\ now = 2 * SESSION_TIMEOUT
        /\ sessions[i].last_activity = now - SESSION_TIMEOUT
        /\ Len(UserEntries(sessions[i].conversation_history)) = 2
        /\ ~is_expired(sessions[i], now)

\* the entities the configuration declares as required for an intent
DeclaredRequired(intent) ==
    IF intent \in DOMAIN config.intents
       /\ "required_entities" \in DOMAIN config.intents[intent]
    THEN Range(config.intents[intent].required_entities)
    ELSE {}

\* C23: get_required_entities returns the empty list for an intent that is
\* not configured, and for a configured intent a list that contains every
\* entity the intent declares as required.
C23_RequiredSlotsContainDeclared ==
    last.op = "required"
    => /\ last.query \notin get_valid_intents => last.resp.result = <<>>
       /\ last.query \in get_valid_intents
          => DeclaredRequired(last.query) \subseteq Range(last.resp.result)

\* the most recent operation asked for the question of a configured entity
\* with dynamic generation enabled, and generate_content raised
GenerationFailed ==
    /\ last.op = "question"
    /\ get_entity_config(last.query) # EmptyMap
    /\ get_entity_config(last.query).use_dynamic_question
    /\ last.resp.use_llm /\ last.resp.llm_model
    /\ last.resp.generation = "raises"

\* C24: get_entity_question never raises because of the question
\* generation: whatever generate_content does the call returns a question,
\* and when dynamic generation is enabled and generate_content raises, the
\* question returned is the entity's template (the default text when it has
\* none), without examples.
C24_GenerationFailureFallsBack ==
    /\ last.op = "question" => ~last.resp.result.raised
    /\ GenerationFailed
       => last.resp.result =
             question(FALSE, question_template(get_entity_config(last.query)), FALSE)
    /\ (last.op = "question" /\ last.resp.result.text = "generated")
       => /\ last.resp.generation = "text"
          /\ last.resp.use_llm /\ last.resp.llm_model
          /\ get_entity_config(last.query).use_dynamic_question

\* the generation failed for an entity that has a template, and the template
\* was returned
C24_Witness ==
    /\ GenerationFailed
    /\ get_entity_config(last.query).question_template = "template"
    /\ last.resp.result.text = "template"
    /\ ~last.resp.result.raised

\* C25: a turn on a session that is collecting for a topic leaves the topic
\* as it was, whatever intent the NLU detected, and does no reconciliation:
\* no confirmation is proposed and no collected slot is dropped.
C25_CollectingKeepsTopic ==
    [][(/\ ContinuingTurn
        /\ sessions[last'.id].stage = "collecting"
        /\ sessions[last'.id].intent # None)
       => /\ sessions'[last'.id].intent = sessions[last'.id].intent
          /\ last'.resp.reconciliation = "none"
          /\ last'.resp.next_question # "confirmation"
          /\ sessions'[last'.id].stage # "confirming_entities"
          /\ sessions'[last'.id].pending_entity_confirmation
                = sessions[last'.id].pending_entity_confirmation
          /\ DOMAIN sessions[last'.id].collected_entities
                \subseteq DOMAIN sessions'[last'.id].collected_entities]_vars

\* a session collecting for General, holding a slot, had a turn in which the
\* NLU detected FAQ: it is still collecting for General and holds the slot
C25_Witness ==
    /\ TurnAnswered
    /\ ~last.created
    /\ last.nlu.ok /\ last.nlu.intent = "FAQ"
    /\ sessions[last.id].intent = "General"
    /\ sessions[last.id].stage = "collecting"
    /\ sessions[last.id].conversation_history[2] = entry("assistant", "ask")
    /\ sessions[last.id].collected_entities # EmptyMap
    /\ last.resp.reconciliation = "none"

\* the most recent operation was a turn that reached the merge of the
\* extracted entities: the NLU reply was usable and the turn did not stop at
\* a confirmation prompt
ReachedMerge ==
    /\ TurnAnswered
    /\ last.nlu.ok /\ last.nlu.dict
    /\ last.resp.reconciliation # "confirm"

\* C26: after a turn that reached the merge, every extracted slot with a
\* known identifier and a non-empty value is in the session's collected
\* slots with the extracted value, for every topic and every slot.
C26_KnownSlotsAreMerged ==
    ReachedMerge
    => \A i \in 1..Len(last.nlu.entities) :
          LET key   == last.nlu.entities[i][1]
              value == last.nlu.entities[i][2]
          IN (key \in get_valid_entities /\ value # "")
             => /\ key \in DOMAIN sessions[last.id].collected_entities
                /\ sessions[last.id].collected_entities[key] = value

\* C27: every key of every session's collected slots is a known slot
\* identifier and maps to a non-empty value.
C27_CollectedSlotsAreKnownAndFilled ==
    \A i \in DOMAIN sessions :
        \A k \in DOMAIN sessions[i].collected_entities :
            /\ k \in get_valid_entities
            /\ Truthy(sessions[i].collected_entities[k])

\* a session that holds a slot had a turn that reached the merge with a
\* reply holding an unknown key or an empty value, and stored neither
C27_Witness ==
    /\ ReachedMerge
    /\ sessions[last.id].collected_entities # EmptyMap
    /\ Len(last.nlu.entities) = 1
    /\ \/ /\ last.nlu.entities[1][1] = "bogus"
          /\ last.nlu.entities[1][2] = "x"
          /\ "bogus" \notin DOMAIN sessions[last.id].collected_entities
       \/ /\ last.nlu.entities[1] = <<"county", "">>
          /\ "county" \notin DOMAIN sessions[last.id].collected_entities

\* C28: a turn in which the intent change finds reusable slots returns the
\* confirmation prompt with the session in stage confirming_entities and the
\* confirmation stored, and leaves the collected slots and the topic as
\* they were: nothing extracted in the turn is merged.
C28_ConfirmationTurnMergesNothing ==
    [][(last'.op = "chat" /\ last'.resp.reconciliation = "confirm")
       => /\ ContinuingTurn
          /\ last'.resp.http = 200
          /\ last'.resp.requires_input
          /\ last'.resp.next_question = "confirmation"
          /\ last'.resp.stages = <<"confirming_entities">>
          /\ sessions'[last'.id].stage = "confirming_entities"
          /\ sessions'[last'.id].pending_entity_confirmation.set
          /\ sessions'[last'.id].collected_entities
                = sessions[last'.id].collected_entities
          /\ sessions'[last'.id].intent = sessions[last'.id].intent]_vars

\* a confirmation was asked in a turn whose reply held a known slot with a
\* value the session does not hold
C28_Witness ==
    /\ TurnAnswered
    /\ last.resp.reconciliation = "confirm"
    /\ sessions[last.id].stage = "confirming_entities"
    /\ Len(last.nlu.entities) = 1
    /\ last.nlu.entities[1][1] \in get_valid_entities
    /\ last.nlu.entities[1][2] # ""
    /\ \/ last.nlu.entities[1][1] \notin DOMAIN sessions[last.id].collected_entities
       \/ sessions[last.id].collected_entities[last.nlu.entities[1][1]]
             # last.nlu.entities[1][2]

\* C29: a turn in which the intent change finds no reusable slot drops
\* every slot collected before it (what the session holds afterwards comes
\* from the reply of this turn), adopts the detected intent, asks no
\* confirmation, and goes on in the same turn: when the reply's entities
\* are an object it merges them and prompts for a missing slot or searches.
C29_NoReuseClearsAndContinues ==
    [][(last'.op = "chat" /\ last'.resp.reconciliation = "clear")
       => /\ ContinuingTurn
          /\ sessions[last'.id].collected_entities # EmptyMap
          /\ sessions'[last'.id].intent = extracted_intent(last'.nlu)
          /\ \A k \in DOMAIN sessions'[last'.id].collected_entities :
                \E i \in 1..Len(last'.nlu.entities) :
                   last'.nlu.entities[i]
                      = <<k, sessions'[last'.id].collected_entities[k]>>
          /\ last'.resp.next_question # "confirmation"
          /\ last'.resp.stages # <<"confirming_entities">>
          /\ sessions'[last'.id].pending_entity_confirmation
                = sessions[last'.id].pending_entity_confirmation
          /\ last'.nlu.dict
             => /\ last'.resp.http = 200
                /\ last'.resp.missing = StillMissing(sessions'[last'.id])
                /\ IF last'.resp.missing # <<>>
                   THEN /\ sessions'[last'.id].stage = "collecting"
                        /\ last'.resp.requires_input
                        /\ last'.resp.next_question # None
                   ELSE /\ last'.resp.query # None
                        /\ sessions'[last'.id].stage \in {"searching", "complete"}]_vars

\* a session that held a topic for FAQ had a turn in which General was
\* detected: it is collecting for General and the topic is gone
C29_Witness ==
    /\ TurnAnswered
    /\ last.resp.reconciliation = "clear"
    /\ sessions[last.id].intent = "General"
    /\ sessions[last.id].stage = "collecting"
    /\ "topic" \notin DOMAIN sessions[last.id].collected_entities
    /\ last.resp.next_question \in {"county", "age"}

\* C30: a turn asks a confirmation or clears the collected slots because of
\* an intent change only if the session had a topic, the detected intent
\* differs from it, the session held at least one collected slot, and its
\* stage when the turn reached that point was not collecting (nor complete,
\* which the start of the turn resets to initial with no slots).
C30_ReconciliationOnlyOnTopicChange ==
    [][(last'.op = "chat" /\ last'.resp.reconciliation # "none")
       => /\ ContinuingTurn
          /\ last'.nlu.ok
          /\ sessions[last'.id].intent # None
          /\ extracted_intent(last'.nlu) # sessions[last'.id].intent
          /\ sessions[last'.id].collected_entities # EmptyMap
          /\ sessions[last'.id].stage \notin {"collecting", "complete"}
          /\ last'.resp.stages # <<>> => last'.resp.stages[1] # "initial"]_vars

\* a session whose search had failed (stage searching) had a turn with
\* another intent and was asked to confirm the reuse of a slot
C30_Witness ==
    /\ TurnAnswered
    /\ last.resp.reconciliation = "confirm"
    /\ last.resp.proposed # EmptyMap
    /\ extracted_intent(last.nlu) # sessions[last.id].intent
    /\ sessions[last.id].conversation_history[2] = entry("assistant", "acknowledgment")
    /\ Len(sessions[last.id].conversation_history) = 3

\* every slot session s holds is an item of the NLU reply of the turn
OnlyExtractedSlots(s, nlu) ==
    \A k \in DOMAIN s.collected_entities :
        \E i \in 1..Len(nlu.entities) :
            nlu.entities[i] = <<k, s.collected_entities[k]>>

\* C31: complete is not terminal.  A turn on a session in stage complete in
\* which the NLU detects another intent than the completed one leaves the
\* session under the detected intent, holding only slots extracted in this
\* turn, in stage collecting when a required slot is missing and searching
\* or complete otherwise.
C31_CompleteIsNotTerminal ==
    [][(/\ ContinuingTurn
        /\ sessions[last'.id].stage = "complete"
        /\ last'.nlu.ok /\ last'.nlu.dict
        /\ extracted_intent(last'.nlu) # sessions[last'.id].intent)
       => /\ last'.resp.http = 200
          /\ sessions'[last'.id].intent = extracted_intent(last'.nlu)
          /\ OnlyExtractedSlots(sessions'[last'.id], last'.nlu)
          /\ sessions'[last'.id].stage \in {"collecting", "searching", "complete"}
          /\ StillMissing(sessions'[last'.id]) # <<>>
             <=> sessions'[last'.id].stage = "collecting"]_vars

\* a session whose first query had completed in one turn had a turn in
\* which General was detected, and is collecting for General
C31_Witness ==
    /\ TurnAnswered
    /\ ~last.created
    /\ last.resp.stages = <<"initial", "collecting">>
    /\ sessions[last.id].intent = "General"
    /\ sessions[last.id].stage = "collecting"
    /\ sessions[last.id].conversation_history[3] = entry("assistant", "summary")
    /\ OnlyExtractedSlots(sessions[last.id], last.nlu)

\* C32: the start of a turn resets the query exactly when the stage was
\* complete.  The turn reports the assignment stage = initial first iff it
\* started in complete; a turn whose NLU call fails shows the session as the
\* start left it: reset when it was complete, and with the slots, intent and
\* stage it had otherwise; and a turn on a complete session keeps none of
\* the old slots even when the detected intent is the completed one.
C32_ResetExactlyWhenComplete ==
    [][ContinuingTurn
       => LET s == sessions[last'.id]
              t == sessions'[last'.id]
          IN /\ (last'.resp.stages # <<>> /\ last'.resp.stages[1] = "initial")
                <=> s.stage = "complete"
             /\ (s.stage = "complete" /\ ~last'.nlu.ok)
                => /\ t.collected_entities = EmptyMap
                   /\ t.intent = None
                   /\ t.stage = "initial"
             /\ (s.stage # "complete" /\ ~last'.nlu.ok)
                => /\ t.collected_entities = s.collected_entities
                   /\ t.intent = s.intent
                   /\ t.stage = s.stage
             /\ (s.stage = "complete" /\ last'.nlu.ok /\ last'.nlu.dict)
                => OnlyExtractedSlots(t, last'.nlu)]_vars

\* a session that had completed a FAQ query with its topic had a turn in
\* which FAQ was detected again without a topic: the topic is gone and the
\* session is asked for it
C32_Witness ==
    /\ TurnAnswered
    /\ ~last.created
    /\ last.resp.stages = <<"initial", "collecting">>
    /\ extracted_intent(last.nlu) = "FAQ"
    /\ sessions[last.id].conversation_history[3] = entry("assistant", "summary")
    /\ sessions[last.id].conversation_history[1] = entry("user", "q1")
    /\ sessions[last.id].collected_entities = EmptyMap
    /\ last.resp.next_question = "topic"

\* C33: no collected slot survives a change of topic.  After a turn that
\* changes the topic of a session from a non-null topic to another one,
\* every slot the session holds is an item of this turn's NLU reply; and a
\* turn that offers slots for reuse does not change the topic.
C33_NoSlotSurvivesTopicChange ==
    [][ContinuingTurn
       => /\ (/\ sessions[last'.id].intent # None
              /\ sessions'[last'.id].intent # sessions[last'.id].intent)
             => OnlyExtractedSlots(sessions'[last'.id], last'.nlu)
          /\ last'.resp.proposed # EmptyMap
             => sessions'[last'.id].intent = sessions[last'.id].intent]_vars

\* C34: a session whose stage is initial has no topic, no collected slot
\* and no pending confirmation.
C34_InitialIsBlank ==
    \A i \in DOMAIN sessions :
        sessions[i].stage = "initial"
        => /\ sessions[i].intent = None
           /\ sessions[i].collected_entities = EmptyMap
           /\ ~sessions[i].pending_entity_confirmation.set

\* the step is a turn on a collecting session in which the NLU detects the
\* session's topic again and extracts exactly the first missing required
\* slot, the one the session was asked for, with a non-empty value, and the
\* search, if one is made, succeeds
CooperativeTurn ==
    /\ ContinuingTurn
    /\ sessions[last'.id].stage = "collecting"
    /\ StillMissing(sessions[last'.id]) # <<>>
    /\ last'.nlu.ok /\ last'.nlu.dict
    /\ last'.nlu.intent = sessions[last'.id].intent
    /\ Len(last'.nlu.entities) = 1
    /\ last'.nlu.entities[1][1] = StillMissing(sessions[last'.id])[1]
    /\ last'.nlu.entities[1][2] # ""
    /\ last'.search # "fail"

\* C35: slot filling makes progress for every configured topic.  Every
\* turn in which the NLU detects the same topic and extracts the slot that
\* was asked for leaves fewer required slots missing, and completes the
\* query when none is left; so the session is asked for each slot at most
\* once and reaches stage complete.
C35_SlotFillingProgresses ==
    [][CooperativeTurn
       => /\ Len(StillMissing(sessions'[last'.id]))
                < Len(StillMissing(sessions[last'.id]))
          /\ last'.resp.next_question # last'.nlu.entities[1][1]
          /\ StillMissing(sessions'[last'.id]) = <<>>
             => sessions'[last'.id].stage = "complete"]_vars

\* C36: the topic a turn uses to choose its prompt and the topic it passes
\* to the search is the session's topic: the prompt is the question of the
\* first required slot of the session's topic that is missing, and the
\* search is made under the session's topic.
C36_PromptAndSearchUseSessionTopic ==
    TurnAnswered
    => /\ last.resp.query # None
          => last.resp.search_intent = sessions[last.id].intent
       /\ (last.resp.requires_input /\ last.resp.next_question # "confirmation")
          => last.resp.next_question =
                determine_next_question(sessions[last.id].collected_entities,
                                        sessions[last.id].intent)

\* list a is the beginning of list b
IsPrefix(a, b) == Len(a) <= Len(b) /\ SubSeq(b, 1, Len(a)) = a

\* C37: the history of a session is append-only.  Every turn, answered or
\* failed, keeps the entries the history had and puts the user's utterance
\* right after them; no step changes or drops an entry of a session that
\* stays stored; and the query of every search is the first utterance of
\* the history, whatever the utterance of the turn.
C37_HistoryIsAppendOnly ==
    [][/\ \A i \in DOMAIN sessions \cap DOMAIN sessions' :
             IsPrefix(sessions[i].conversation_history,
                      sessions'[i].conversation_history)
       /\ ContinuingTurn
          => sessions'[last'.id].conversation_history[
                 Len(sessions[last'.id].conversation_history) + 1]
                = entry("user", last'.query)
       /\ (last'.op = "chat" /\ last'.created)
          => sessions'[last'.id].conversation_history[1]
                = entry("user", last'.query)
       /\ (last'.op = "chat" /\ last'.resp.query # None)
          => /\ sessions'[last'.id].conversation_history[1].role = "user"
             /\ last'.resp.query
                   = sessions'[last'.id].conversation_history[1].content]_vars

\* a session whose first query (utterance q1) had completed had a second
\* query with utterance q2, which searched with q1
C37_Witness ==
    /\ TurnAnswered
    /\ last.query = "q2"
    /\ last.resp.query = "q1"
    /\ last.resp.stages = <<"initial", "searching", "complete">>
    /\ sessions[last.id].conversation_history[3] = entry("assistant", "summary")
    /\ sessions[last.id].conversation_history[4] = entry("user", "q2")

\* the sessions a step is about: the id a request names and, for a turn,
\* the id of the session it ran on
Addressed == IF last'.op \in {"chat", "get", "delete"}
             THEN {last'.session_id, last'.id}
             ELSE {}

\* C38: sessions are isolated.  A step leaves every stored session it is
\* not about as it was and stores no session but the one a turn ran on;
\* and the response of a turn and the session it leaves are those of the
\* body of chat applied to that session alone (a new one when the turn
\* created it), the utterance and the replies of the NLU and the search.
C38_SessionsAreIsolated ==
    [][/\ \A i \in (DOMAIN sessions) \ Addressed :
             i \in DOMAIN sessions' /\ sessions'[i] = sessions[i]
       /\ (DOMAIN sessions') \ (DOMAIN sessions) \subseteq {last'.id}
       /\ last'.op = "chat"
          => LET s0 == IF last'.created
                       THEN new_session(last'.id, now)
                       ELSE [sessions[last'.id] EXCEPT !.last_activity = now]
                 r  == chat_turn(s0, last'.query, last'.nlu,
                                 IF last'.search = None THEN "fail" ELSE last'.search)
             IN /\ last'.resp = r.resp
                /\ last'.id \in DOMAIN sessions'
                /\ sessions'[last'.id] = r.session]_vars

\* a turn ran on one of two stored sessions, and the other one, which has a
\* history of its own, is there
C38_Witness ==
    /\ last.op = "chat"
    /\ ~last.created
    /\ \E i \in DOMAIN sessions :
          /\ i # last.id
          /\ sessions[i].conversation_history # <<>>
          /\ sessions[i] # sessions[last.id]

\* requires_input of the response is true exactly when the session is left
\* collecting or confirming, and search results come only with stage complete
InputAndResultsAgree ==
    /\ last.resp.requires_input
       <=> sessions[last.id].stage \in {"collecting", "confirming_entities"}
    /\ last.resp.search_results # None => sessions[last.id].stage = "complete"

=============================================================================
